---- MODULE Spec2Model ----
(***************************************************************************)
(* PigeonMarketCapBot (twitter_pigeon_bot_live_mcap.py): the daily post    *)
(* routine, its once-per-day guard, the message composer, the number       *)
(* formatter and the JSON state file, as a state machine.                  *)
(*                                                                         *)
(* Dates are day numbers 1, 2, ...; None (no last_post_date) is 0.         *)
(* The calendar date only moves forward.                                  *)
(* Market caps are whole dollars.  The price and liquidity fields of the   *)
(* fetch result are only printed by the program and are left out.          *)
(***************************************************************************)
EXTENDS Integers, Sequences, FiniteSets, TLC

\* ---------------------------------------------------------------- bounds
MaxDay   == 2      \* calendar dates explored
MaxCalls == 3      \* invocations of post_daily_update explored
MaxProc  == 2      \* process incarnations explored

\* ------------------------------------------------------ program constants
target_mcap == 941000000
Billion     == 1000000000
Million     == 1000000
Thousand    == 1000

None    == 0                           \* Python None for last_post_date
NoData  == [success |-> FALSE]         \* get_current_mcap returned None
Unset   == [kind |-> "unset"]          \* a local not bound in this invocation
Corrupt == [kind |-> "corrupt"]        \* a truncated / partially written file

\* fdv values the price API may report (0 also stands for a missing fdv)
FdvValues == {0, 500, 1200000, 940998500, 941000000, 950000000, 2000000000}

\* responses of the HTTP GET: a network/HTTP error, a payload whose fdv does
\* not parse, an empty pair list, or a first pair carrying an fdv
Responses == {[kind |-> "error"], [kind |-> "malformed"], [kind |-> "nopairs"]}
             \cup {[kind |-> "pair", fdv |-> v] : v \in FdvValues}

TweetOutcomes == {"ok", "raise"}
\* save_data: completes; open() raises (file untouched); or the write stops
\* after open() truncated the file (file left unparseable)
SaveOutcomes  == {"ok", "open_raises", "dump_raises"}

VARIABLES
  today,       \* datetime.now() as a calendar date
  pc,          \* "running" | "down" | "crashed": the process
  proc,        \* number of the current process incarnation
  data,        \* self.data of the (latest) process
  file,        \* contents of bot_data.json
  mcap_data,   \* local mcap_data of the latest invocation
  tweet_text,  \* local tweet_text of the latest invocation
  result,      \* how the latest invocation ended
  call_date,   \* local today of the latest invocation
  call_proc,   \* the process that ran the latest invocation
  calls,       \* number of invocations so far
  tweets,      \* create_tweet calls that returned, in order: date, process,
               \* kind, and whether the save_data after it completed
  day_start,   \* day_count when the current date began
  clock,       \* "pre" | "post": whether today's post_time has passed
  next_run     \* date on which the scheduled job is next due; None if no job

\* the state of run_scheduled
sched == <<clock, next_run>>

vars == <<today, pc, proc, data, file, mcap_data, tweet_text, result,
          call_date, call_proc, calls, tweets, day_start, clock, next_run>>

\* ------------------------------------------------------------ format_number
Digit2(n) == IF n < 10 THEN "0" \o ToString(n) ELSE ToString(n)

\* f"{h/100:.2f}" of a count h of hundredths
Fixed2(h) == ToString(h \div 100) \o "." \o Digit2(h % 100)

\* num/unit rounded to hundredths as :.2f rounds it.  unit is 1 or a
\* multiple of 100.  For whole num the quotient is never closer to a
\* rounding tie than 1/unit unless it is exactly one, and the inputs of this
\* model are never exactly one, so nearest-rounding is what :.2f yields.
Hundredths(num, unit) ==
  IF unit = 1 THEN num * 100
  ELSE LET d == unit \div 100
       IN (num \div d) + (IF 2 * (num % d) >= d THEN 1 ELSE 0)

\* the millions branch divides by the thousands unit
format_number_WrongUnit(num) ==
  IF num >= Billion THEN "$" \o Fixed2(Hundredths(num, Billion)) \o "B"
  ELSE IF num >= Million THEN "$" \o Fixed2(Hundredths(num, Thousand)) \o "M"
  ELSE IF num >= Thousand THEN "$" \o Fixed2(Hundredths(num, Thousand)) \o "K"
  ELSE "$" \o Fixed2(Hundredths(num, 1))

format_number(num) ==
  IF num >= Billion THEN "$" \o Fixed2(Hundredths(num, Billion)) \o "B"
  ELSE IF num >= Million THEN "$" \o Fixed2(Hundredths(num, Million)) \o "M"
  ELSE IF num >= Thousand THEN "$" \o Fixed2(Hundredths(num, Thousand)) \o "K"
  ELSE "$" \o Fixed2(Hundredths(num, 1))

\* --------------------------------------------------------- get_current_mcap
get_current_mcap(resp) ==
  IF resp.kind = "pair"
  THEN [success |-> TRUE, mcap |-> resp.fdv]
  ELSE NoData

\* ------------------------------------------------------------------- guard
\* the date comparison slipped to one that never holds
AlreadyPostedNever(d, t) == d.last_post_date > t

AlreadyPosted(d, t) == d.last_post_date = t

\* line 136: arming the guard after create_tweet returned
\* the date is stored under the wrong key
ArmWrongKey(d, t) == [d EXCEPT !.start_date = t]

Arm(d, t) == [d EXCEPT !.last_post_date = t]

\* ---------------------------------------------------------------- composer
\* Each branch yields the message and self.data after composing.
\* the flag is not set when the target is first reached
ReachedBranchNoFlag(md, d) ==
  [text |-> [kind |-> "reached", day |-> d.day_count,
             current |-> format_number(md.mcap), togo |-> ""],
   data |-> d]

\* lines 112-115: first observation at or above target
ReachedBranch(md, d) ==
  [text |-> [kind |-> "reached", day |-> d.day_count,
             current |-> format_number(md.mcap), togo |-> ""],
   data |-> [d EXCEPT !.reached_target = TRUE]]

\* the day counter is advanced above target too
HoldingBranchCounts(md, d) ==
  [text |-> [kind |-> "holding", day |-> d.day_count + 1,
             current |-> format_number(md.mcap), togo |-> ""],
   data |-> [d EXCEPT !.day_count = @ + 1]]

\* lines 116-118: already above target
HoldingBranch(md, d) ==
  [text |-> [kind |-> "holding", day |-> d.day_count,
             current |-> format_number(md.mcap), togo |-> ""],
   data |-> d]

\* the message is built before the counter is advanced
UnderBranchStaleDay(md, d) ==
  [text |-> [kind |-> "under", day |-> d.day_count,
             current |-> format_number(md.mcap),
             togo |-> format_number(target_mcap - md.mcap)],
   data |-> [d EXCEPT !.day_count = @ + 1]]

\* lines 119-125: still under target
UnderBranch(md, d) ==
  [text |-> [kind |-> "under", day |-> d.day_count + 1,
             current |-> format_number(md.mcap),
             togo |-> format_number(target_mcap - md.mcap)],
   data |-> [d EXCEPT !.day_count = @ + 1]]

\* the fallback forgets to advance the counter
FallbackBranchNoCount(d) ==
  [text |-> [kind |-> "fallback", day |-> d.day_count,
             current |-> "", togo |-> ""],
   data |-> d]

\* lines 126-130: fallback if the API fails
FallbackBranch(d) ==
  [text |-> [kind |-> "fallback", day |-> d.day_count + 1,
             current |-> "", togo |-> ""],
   data |-> [d EXCEPT !.day_count = @ + 1]]

\* the target comparison is strict
ComposeStrict(md, d) ==
  IF md.success
  THEN IF md.mcap > target_mcap /\ ~d.reached_target
       THEN ReachedBranch(md, d)
       ELSE IF md.mcap > target_mcap
       THEN HoldingBranch(md, d)
       ELSE UnderBranch(md, d)
  ELSE FallbackBranch(d)

\* lines 107-130: branch selection
Compose(md, d) ==
  IF md.success
  THEN IF md.mcap >= target_mcap /\ ~d.reached_target
       THEN ReachedBranch(md, d)
       ELSE IF md.mcap >= target_mcap
       THEN HoldingBranch(md, d)
       ELSE UnderBranch(md, d)
  ELSE FallbackBranch(d)

\* ---------------------------------------------------------------- save_data
\* the dump is never written out
save_data_NoWrite(d, f, sv) == IF sv = "dump_raises" THEN Corrupt ELSE f

\* the file after save_data ran on self.data = d with outcome sv
save_data(d, f, sv) ==
  IF sv = "ok" THEN d
  ELSE IF sv = "open_raises" THEN f
  ELSE Corrupt

\* ------------------------------------------------------ exception handling
\* the exception the body of post_daily_update raises, if any: create_tweet
\* raises a TweepyException, save_data an OSError; every fetch error is
\* already swallowed inside get_current_mcap (lines 80-82)
Raised(tw, sv) ==
  IF tw = "raise" THEN "TweepyException"
  ELSE IF sv # "ok" THEN "OSError"
  ELSE "none"

\* only the Twitter error is handled
CaughtTweepyOnly(exc) == exc = "TweepyException"

\* lines 147-150: except tweepy.TweepyException / except Exception
Caught(exc) == exc = "TweepyException" \/ exc \in {"OSError", "Exception"}

\* ---------------------------------------------------------------- load_data
DefaultData(t) == [day_count |-> 0, start_date |-> t,
                   last_post_date |-> None, reached_target |-> FALSE]

\* the first process has been constructed and no file existed
Constructed ==
  /\ today = 1
  /\ pc = "running"
  /\ proc = 1
  /\ data = DefaultData(1)
  /\ file = DefaultData(1)
  /\ mcap_data = Unset
  /\ tweet_text = Unset
  /\ result = "none"
  /\ call_date = None
  /\ call_proc = 0
  /\ calls = 0
  /\ tweets = <<>>
  /\ day_start = 0

\* post_daily_update is called directly (run_once, or any caller of the
\* class); no job is scheduled
Init ==
  /\ Constructed
  /\ clock = "pre"
  /\ next_run = None

\* ------------------------------------------------------- post_daily_update
\* the day counter is advanced before the guard is consulted
PostSkippedCounts ==
  /\ pc = "running"
  /\ calls < MaxCalls
  /\ AlreadyPosted(data, today)
  /\ calls' = calls + 1
  /\ call_date' = today
  /\ call_proc' = proc
  /\ mcap_data' = Unset
  /\ tweet_text' = Unset
  /\ result' = "skipped"
  /\ data' = [data EXCEPT !.day_count = @ + 1]
  /\ UNCHANGED <<today, pc, proc, file, tweets, day_start>>

\* guard fired (lines 99-102)
PostSkipped ==
  /\ pc = "running"
  /\ calls < MaxCalls
  /\ AlreadyPosted(data, today)
  /\ calls' = calls + 1
  /\ call_date' = today
  /\ call_proc' = proc
  /\ mcap_data' = Unset
  /\ tweet_text' = Unset
  /\ result' = "skipped"
  /\ UNCHANGED <<today, pc, proc, data, file, tweets, day_start>>

\* last_post_date is set before create_tweet is called
PostAttemptArmsFirst(resp, tw, sv) ==
  /\ pc = "running"
  /\ calls < MaxCalls
  /\ ~AlreadyPosted(data, today)
  /\ LET md == get_current_mcap(resp)
         c  == Compose(md, data)
     IN /\ mcap_data' = md
        /\ tweet_text' = c.text
        /\ data' = Arm(c.data, today)
        /\ IF tw = "ok"
           THEN /\ tweets' = Append(tweets, [date |-> today, proc |-> proc,
                                             kind |-> c.text.kind,
                                             saved |-> sv = "ok"])
                /\ file' = save_data(data', file, sv)
                /\ result' = IF sv = "ok" THEN "posted" ELSE "save_failed"
           ELSE /\ tweets' = tweets
                /\ file' = file
                /\ result' = "tweet_failed"
  /\ pc' = IF Raised(tw, sv) = "none" \/ Caught(Raised(tw, sv))
           THEN pc ELSE "down"
  /\ calls' = calls + 1
  /\ call_date' = today
  /\ call_proc' = proc
  /\ UNCHANGED <<today, proc, day_start>>

\* past the guard: fetch, compose, create_tweet, save (lines 104-150)
PostAttempt(resp, tw, sv) ==
  /\ pc = "running"
  /\ calls < MaxCalls
  /\ ~AlreadyPosted(data, today)
  /\ LET md == get_current_mcap(resp)
         c  == Compose(md, data)
     IN /\ mcap_data' = md
        /\ tweet_text' = c.text
        /\ IF tw = "ok"
           THEN /\ tweets' = Append(tweets, [date |-> today, proc |-> proc,
                                             kind |-> c.text.kind,
                                             saved |-> sv = "ok"])
                /\ data' = Arm(c.data, today)
                /\ file' = save_data(data', file, sv)
                /\ result' = IF sv = "ok" THEN "posted" ELSE "save_failed"
           ELSE /\ tweets' = tweets
                /\ data' = c.data
                /\ file' = file
                /\ result' = "tweet_failed"
  /\ pc' = IF Raised(tw, sv) = "none" \/ Caught(Raised(tw, sv))
           THEN pc ELSE "down"
  /\ calls' = calls + 1
  /\ call_date' = today
  /\ call_proc' = proc
  /\ UNCHANGED <<today, proc, day_start>>

\* one invocation, any outcome
Invocation ==
  \/ PostSkipped
  \/ \E resp \in Responses, tw \in TweetOutcomes, sv \in SaveOutcomes :
        /\ (tw = "raise" => sv = "ok")
        /\ PostAttempt(resp, tw, sv)

post_daily_update ==
  /\ Invocation
  /\ UNCHANGED sched

\* ------------------------------------------------------------- environment
\* midnight passes
AdvanceDay ==
  /\ today < MaxDay
  /\ today' = today + 1
  /\ day_start' = data.day_count
  /\ UNCHANGED <<pc, proc, data, file, mcap_data, tweet_text, result,
                 call_date, call_proc, calls, tweets, clock, next_run>>

\* the process ends (run_once returns, Ctrl+C, kill); its memory is lost
Stop ==
  /\ pc = "running"
  /\ pc' = "down"
  /\ UNCHANGED <<today, proc, data, file, mcap_data, tweet_text, result,
                 call_date, call_proc, calls, tweets, day_start,
                 clock, next_run>>

\* the new process starts from the defaults although the file exists
StartDefaults ==
  /\ pc = "down"
  /\ proc < MaxProc
  /\ file # Corrupt
  /\ pc' = "running"
  /\ proc' = proc + 1
  /\ data' = DefaultData(today)
  /\ UNCHANGED <<today, file, mcap_data, tweet_text, result,
                 call_date, call_proc, calls, tweets, day_start,
                 clock, next_run>>

\* a new process: __init__ -> load_data reads the existing file
Start ==
  /\ pc = "down"
  /\ proc < MaxProc
  /\ file # Corrupt
  /\ pc' = "running"
  /\ proc' = proc + 1
  /\ data' = file
  /\ UNCHANGED <<today, file, mcap_data, tweet_text, result,
                 call_date, call_proc, calls, tweets, day_start,
                 clock, next_run>>

\* a new process whose json.load raises on the unparseable file
StartFails ==
  /\ pc = "down"
  /\ file = Corrupt
  /\ pc' = "crashed"
  /\ UNCHANGED <<today, proc, data, file, mcap_data, tweet_text, result,
                 call_date, call_proc, calls, tweets, day_start,
                 clock, next_run>>

Next ==
  \/ post_daily_update
  \/ AdvanceDay
  \/ Stop
  \/ Start
  \/ StartFails

Spec == Init /\ [][Next]_vars

\* ------------------------------------------------------------ run_scheduled
\* line 171: schedule.every().day.at(post_time).do(self.post_daily_update);
\* the job is first due today if post_time is still ahead, else tomorrow
SchedInit ==
  /\ Constructed
  /\ clock \in {"pre", "post"}
  /\ next_run = IF clock = "pre" THEN 1 ELSE 2

\* the comparison ignores the time of day: due only from the next date on
DueNextDate == next_run # None /\ today > next_run

\* run_pending's test: now >= job.next_run
Due ==
  /\ next_run # None
  /\ (today > next_run \/ (today = next_run /\ clock = "post"))

\* lines 192-194: a pass of the loop that finds the job due runs it and
\* schedules it for the next occurrence of post_time; a pass that finds
\* nothing due only sleeps and changes nothing
Tick ==
  /\ pc = "running"
  /\ Due
  /\ Invocation
  /\ next_run' = IF clock = "pre" THEN today ELSE today + 1
  /\ clock' = clock

\* the wall clock reaches post_time
PostTimePasses ==
  /\ clock = "pre"
  /\ clock' = "post"
  /\ UNCHANGED <<today, pc, proc, data, file, mcap_data, tweet_text, result,
                 call_date, call_proc, calls, tweets, day_start, next_run>>

\* midnight passes; the loop polls every 60 s, so a running loop has taken
\* the pass that runs a due job before the date changes
Midnight ==
  /\ clock = "post"
  /\ today < MaxDay
  /\ ~(pc = "running" /\ Due)
  /\ today' = today + 1
  /\ clock' = "pre"
  /\ day_start' = data.day_count
  /\ UNCHANGED <<pc, proc, data, file, mcap_data, tweet_text, result,
                 call_date, call_proc, calls, tweets, next_run>>

\* lines 195-196: KeyboardInterrupt ends the loop
Interrupt ==
  /\ pc = "running"
  /\ pc' = "down"
  /\ UNCHANGED <<today, proc, data, file, mcap_data, tweet_text, result,
                 call_date, call_proc, calls, tweets, day_start,
                 clock, next_run>>

SchedNext ==
  \/ Tick
  \/ PostTimePasses
  \/ Midnight
  \/ Interrupt

\* while True: run_pending(); sleep(60) keeps taking passes
SchedSpec == SchedInit /\ [][SchedNext]_vars /\ WF_vars(Tick)

TypeOK ==
  /\ today \in 1..MaxDay
  /\ pc \in {"running", "down", "crashed"}
  /\ proc \in 1..MaxProc
  /\ calls \in 0..MaxCalls
  /\ data.day_count \in 0..MaxCalls
  /\ result \in {"none", "skipped", "posted", "save_failed", "tweet_failed"}

\* ------------------------------------------------------------ step shapes
Invoked     == calls' = calls + 1                  \* the step is an invocation
TweetMade   == Len(tweets') = Len(tweets) + 1      \* create_tweet succeeded
PastGuard(r) == r \in {"posted", "save_failed", "tweet_failed"}
PostedOk(r)  == r \in {"posted", "save_failed"}

\* ---------------------------------------------------------------- C1
\* C1: within one process at most one tweet is created per calendar date,
\* whatever the fetch and create_tweet outcomes: no two tweets share process
\* and date, and an invocation that starts with last_post_date = today
\* creates no tweet.
C1_OnePostPerDate ==
  /\ [](\A i, j \in 1..Len(tweets) :
          (tweets[i].date = tweets[j].date /\ tweets[i].proc = tweets[j].proc)
            => i = j)
  /\ [][(Invoked /\ data.last_post_date = today) => tweets' = tweets]_vars

\* a process posted on a date after an earlier failure and then skipped a
\* later invocation on that date
C1_Witness ==
  /\ calls = 3
  /\ result = "skipped"
  /\ Len(tweets) = 1
  /\ tweets[1].date = call_date
  /\ tweets[1].proc = call_proc
  /\ data.day_count = 2

\* ---------------------------------------------------------------- C2
\* C2 (as stated): two consecutive invocations in one process on one date,
\* the first starting with last_post_date # date, create exactly one tweet:
\* the first posts and the guard stops the second.
C2_ExactlyOneOfTwo ==
  [][(Invoked /\ PastGuard(result) /\ call_date = today /\ call_proc = proc)
       => (PostedOk(result) /\ result' = "skipped" /\ tweets' = tweets)]_vars

\* C2 (amended): such a pair of invocations creates at most one tweet, and
\* when the first call's create_tweet succeeds the guard stops the second,
\* so exactly one tweet is created.
C2_AtMostOneOfTwo ==
  [][(Invoked /\ PastGuard(result) /\ call_date = today /\ call_proc = proc)
       => /\ ~(PostedOk(result) /\ TweetMade)
          /\ (PostedOk(result) => result' = "skipped" /\ tweets' = tweets)]_vars

\* exactly two invocations, same process and date: one tweet, second skipped
C2_Witness ==
  /\ calls = 2
  /\ result = "skipped"
  /\ Len(tweets) = 1
  /\ tweets[1].date = call_date
  /\ tweets[1].proc = call_proc

\* ---------------------------------------------------------------- C3
\* C3: day_count grows by at most 1 over a calendar date, failed tweets
\* included: it never exceeds its value at the start of the date plus 1.
C3_DayCountAtMostOnePerDay == data.day_count <= day_start + 1

\* ---------------------------------------------------------------- C4
\* C4: reached_target is irreversible: once true it is never false again,
\* also after a failed tweet and after a restart reloads the file; and it
\* becomes true only on an invocation whose fetched mcap is >= target.
C4_ReachedTargetIrreversible ==
  [][/\ (data.reached_target => data'.reached_target)
     /\ ((~data.reached_target /\ data'.reached_target)
           => (Invoked /\ mcap_data'.success
               /\ mcap_data'.mcap >= target_mcap))]_vars

\* ---------------------------------------------------------------- C5
\* C5: past the guard, with a successful fetch, mcap >= target and
\* reached_target false, the "target reached" message is composed,
\* reached_target becomes true and day_count is unchanged.
C5_TargetReached ==
  [][(Invoked /\ PastGuard(result') /\ mcap_data'.success
      /\ mcap_data'.mcap >= target_mcap /\ ~data.reached_target)
       => /\ tweet_text'.kind = "reached"
          /\ data'.reached_target
          /\ data'.day_count = data.day_count]_vars

\* the target-reached message was composed at exactly the target
C5_Witness ==
  /\ PastGuard(result)
  /\ mcap_data.success
  /\ mcap_data.mcap = target_mcap
  /\ tweet_text.kind = "reached"
  /\ data.reached_target

\* ---------------------------------------------------------------- C6
\* C6: past the guard, with a successful fetch, mcap >= target and
\* reached_target true, the "holding strong" message is composed and
\* day_count and reached_target are unchanged.
C6_HoldingStrong ==
  [][(Invoked /\ PastGuard(result') /\ mcap_data'.success
      /\ mcap_data'.mcap >= target_mcap /\ data.reached_target)
       => /\ tweet_text'.kind = "holding"
          /\ tweet_text'.day = data.day_count
          /\ data'.reached_target = data.reached_target
          /\ data'.day_count = data.day_count]_vars

\* a holding-strong message was composed after the flag had been set
C6_Witness ==
  /\ PastGuard(result)
  /\ mcap_data.success
  /\ mcap_data.mcap >= target_mcap
  /\ tweet_text.kind = "holding"
  /\ data.reached_target

\* ---------------------------------------------------------------- C7
\* C7: past the guard, with a successful fetch and mcap < target, day_count
\* grows by exactly 1, the "still under target" message carries the new
\* day_count and the formatted remainder target - mcap, and reached_target
\* is unchanged, whatever its value.
C7_StillUnder ==
  [][(Invoked /\ PastGuard(result') /\ mcap_data'.success
      /\ mcap_data'.mcap < target_mcap)
       => /\ data'.day_count = data.day_count + 1
          /\ tweet_text'.kind = "under"
          /\ tweet_text'.day = data'.day_count
          /\ tweet_text'.current = format_number(mcap_data'.mcap)
          /\ tweet_text'.togo = format_number(target_mcap - mcap_data'.mcap)
          /\ data'.reached_target = data.reached_target]_vars

\* an under-target message composed while reached_target was already true,
\* with the remainder 1,500 shown in thousands
C7_Witness ==
  /\ PastGuard(result)
  /\ mcap_data.success
  /\ mcap_data.mcap = 940998500
  /\ tweet_text.kind = "under"
  /\ tweet_text.togo = "$1.50K"
  /\ tweet_text.day = data.day_count
  /\ data.reached_target

\* ---------------------------------------------------------------- C8
\* C8: past the guard, when the fetch yields no data, the fallback message is
\* composed, day_count grows by exactly 1, reached_target is unchanged and
\* create_tweet is still called.
C8_Fallback ==
  [][(Invoked /\ data.last_post_date # today /\ mcap_data' = NoData)
       => /\ tweet_text'.kind = "fallback"
          /\ tweet_text'.day = data.day_count + 1
          /\ data'.day_count = data.day_count + 1
          /\ data'.reached_target = data.reached_target
          /\ PastGuard(result')]_vars

\* a fallback message was composed and posted
C8_Witness ==
  /\ result = "posted"
  /\ mcap_data = NoData
  /\ tweet_text.kind = "fallback"
  /\ tweet_text.day = 1
  /\ data.day_count = 1
  /\ Len(tweets) = 1

\* ---------------------------------------------------------------- C9
\* C9 (as stated): format_number maps 950,000,000 to "$0.95B", 1,200,000 to
\* "$1.20M" and 500 to "$500.00".
C9_FormatAsStated ==
  (PastGuard(result) /\ mcap_data.success)
    => /\ (mcap_data.mcap = 950000000 => tweet_text.current = "$0.95B")
       /\ (mcap_data.mcap = 1200000 => tweet_text.current = "$1.20M")
       /\ (mcap_data.mcap = 500 => tweet_text.current = "$500.00")

\* C9 (amended): format_number maps 950,000,000 to "$950.00M" (it is below
\* the 1,000,000,000 threshold of the B suffix), 1,200,000 to "$1.20M" and
\* 500 to "$500.00".
C9_Format ==
  (PastGuard(result) /\ mcap_data.success)
    => /\ (mcap_data.mcap = 950000000 => tweet_text.current = "$950.00M")
       /\ (mcap_data.mcap = 1200000 => tweet_text.current = "$1.20M")
       /\ (mcap_data.mcap = 500 => tweet_text.current = "$500.00")

\* the formatter ran on 950,000,000
C9_Witness ==
  /\ PastGuard(result)
  /\ mcap_data.success
  /\ mcap_data.mcap = 950000000
  /\ tweet_text.current = "$950.00M"

\* ---------------------------------------------------------------- C10
\* C10 (as stated): the state file changes only in an invocation whose
\* create_tweet succeeded, every such invocation rewrites it with
\* last_post_date = today, and a skipped or failed invocation leaves it
\* unchanged.
C10_FileRewrittenIffPosted ==
  [][/\ (file' # file => (Invoked /\ TweetMade))
     /\ ((Invoked /\ TweetMade)
           => (file' # file /\ file' = data' /\ file'.last_post_date = today))
     /\ ((Invoked /\ ~TweetMade) => file' = file)]_vars

\* C10 (amended): the state file changes only in an invocation whose
\* create_tweet succeeded; every such invocation whose save_data completes
\* rewrites it with last_post_date = today, and one whose save_data raises
\* leaves it unchanged or truncated; a skipped or failed invocation leaves
\* it unchanged.
C10_FileRewrittenIffSaved ==
  [][/\ (file' # file => (Invoked /\ TweetMade))
     /\ ((Invoked /\ TweetMade /\ result' = "posted")
           => (file' # file /\ file' = data' /\ file'.last_post_date = today))
     /\ ((Invoked /\ TweetMade /\ result' # "posted")
           => (result' = "save_failed" /\ file' \in {file, Corrupt}))
     /\ ((Invoked /\ ~TweetMade) => file' = file)]_vars

\* a post succeeded and the file carries its date
C10_Witness ==
  /\ result = "posted"
  /\ file = data
  /\ file.last_post_date = call_date
  /\ call_date = today

\* ---------------------------------------------------------------- C11
\* C11: no invocation of post_daily_update ends with an exception: after
\* every invocation, whatever failed in it (fetch, create_tweet, the write of
\* the state file), the process is still running and can take the next tick.
C11_NoFailureEscapes ==
  [][Invoked => (pc' = "running" /\ proc' = proc)]_vars

\* the write of the state file failed after a tweet on the fallback path and
\* the process is still running
C11_Witness ==
  /\ pc = "running"
  /\ result = "save_failed"
  /\ call_proc = proc
  /\ mcap_data = NoData
  /\ file = Corrupt

\* ---------------------------------------------------------------- C12
\* C12: the composed message depends only on the fetch result and the
\* persisted state: two invocations that pass the guard with the same fetch
\* result and the same file contents compose the same text.  Stated for an
\* invocation that follows one whose create_tweet failed: that one left the
\* file as it found it, so both start from the same file contents.
C12_MessageFromPersistedState ==
  [][(Invoked /\ result = "tweet_failed" /\ PastGuard(result')
      /\ mcap_data' = mcap_data)
       => tweet_text' = tweet_text]_vars

\* ---------------------------------------------------------------- C13
\* C13: when the guard fires (last_post_date = today) the invocation has no
\* effect: no fetch (mcap_data is never bound), no message, no tweet, and
\* day_count, reached_target, last_post_date and the file are unchanged.
C13_GuardHasNoEffect ==
  [][(Invoked /\ data.last_post_date = today)
       => /\ result' = "skipped"
          /\ mcap_data' = Unset
          /\ tweet_text' = Unset
          /\ tweets' = tweets
          /\ data' = data
          /\ file' = file]_vars

\* an invocation was skipped by the guard
C13_Witness ==
  /\ result = "skipped"
  /\ mcap_data = Unset
  /\ tweet_text = Unset
  /\ data.last_post_date = call_date
  /\ call_date = today
  /\ file = data

\* ---------------------------------------------------------------- C14
\* C14: a failed create_tweet leaves last_post_date unchanged in memory and
\* the file untouched, the next invocation (same or later date, same or a
\* restarted process) passes the guard and attempts again, and no invocation
\* creates more than one tweet.
C14_FailedPostDoesNotArm ==
  [][/\ ((Invoked /\ result' = "tweet_failed")
           => /\ data'.last_post_date = data.last_post_date
              /\ file' = file
              /\ tweets' = tweets)
     /\ ((Invoked /\ result = "tweet_failed") => PastGuard(result'))
     /\ (Invoked => Len(tweets') <= Len(tweets) + 1)]_vars

\* a failed post was followed, on the same date, by one that went through
C14_Witness ==
  /\ calls = 2
  /\ result = "posted"
  /\ call_date = 1
  /\ Len(tweets) = 1
  /\ data.day_count = 2
  /\ data.last_post_date = 1

\* ---------------------------------------------------------------- C16
\* C16: a "holding strong" tweet is created only after a "target reached"
\* tweet was created earlier in the execution.
C16_HoldingAfterReached ==
  \A i \in 1..Len(tweets) :
    tweets[i].kind = "holding"
      => \E j \in 1..(i - 1) : tweets[j].kind = "reached"

\* ---------------------------------------------------------------- C17
\* C17: after any invocation has returned, the in-memory day_count,
\* reached_target and last_post_date equal the values in the state file.
C17_MemoryEqualsFile ==
  (pc = "running" /\ calls > 0 /\ call_proc = proc)
    => /\ file # Corrupt
       /\ data.day_count = file.day_count
       /\ data.reached_target = file.reached_target
       /\ data.last_post_date = file.last_post_date

C15_ScheduledDailyInvocation ==
  /\ \A d \in 1..MaxDay :
       (pc = "running" /\ today = d /\ clock = "post" /\ next_run = d)
         ~> ((call_date = d /\ next_run = d + 1) \/ pc # "running")
  /\ [][/\ ((Invoked /\ TweetMade) => data'.last_post_date = today)
        /\ (Invoked => (call_date' = today /\ clock = "post"))
        /\ ((pc = "running" /\ pc' # "running") => ~Invoked)]_vars

\* the job ran on day 1 and on day 2, and the day-2 tweet went through
C15_Witness ==
  /\ pc = "running"
  /\ today = 2
  /\ calls = 2
  /\ call_date = 2
  /\ next_run = 3
  /\ result = "posted"
  /\ data.last_post_date = 2
====
